---- MODULE Spec2Model ----
(***************************************************************************)
(* Moltbot worker: the catch-all proxy handler of src/index.ts, the        *)
(* gateway supervisor it calls (ensureMoltbotGateway), the container       *)
(* startup script start-moltbot.sh (restore from R2, configure, exec the   *)
(* gateway) and the scheduled backup push.                                 *)
(***************************************************************************)
EXTENDS Integers, Sequences, FiniteSets, TLC

\* ------------------------------------------------------------------ bounds
\* Number of inbound requests handled by the catch-all route.
MaxReq == 2
\* Readiness polls of one start before it gives up (the bounded timeout).
MaxPolls == 2
\* Largest sync-marker value present before the first push.
MaxMarker == 2
\* Scheduled (cron) runs.
MaxCron == 2

\* Frames each side sends within one WebSocket session.
MaxFrames == 2

Req == 1..MaxReq

\* ------------------------------------------------------------------ values
NoFile == "nofile"
NoDir == "nodir"
NoMarker == -1
Contents == {"a", "b"}
Markers == {NoMarker} \cup (0..MaxMarker)

NoResp == [status |-> 0, body |-> "none"]
LoadingPage == [status |-> 200, body |-> "loading.html"]
ErrorHtml == [status |-> 500, body |-> "config-error.html"]
ErrorJson == [status |-> 500, body |-> "json:Failed to start Moltbot"]
Forwarded == [status |-> 200, body |-> "gateway"]
WsAccepted == [status |-> 101, body |-> "websocket"]
WsFailed == [status |-> 500, body |-> "WebSocket connection failed"]
ConfigErrorHtml == [status |-> 503, body |-> "config-error.html"]
ConfigErrorJson == [status |-> 503, body |-> "json:Configuration error"]
DebugDisabled == [status |-> 404, body |-> "json:Debug routes are disabled"]
DebugRouted == [status |-> 200, body |-> "debug"]

NoDetail == [missing |-> <<>>, hint |-> ""]
HintLogs == "Check worker logs with: wrangler tail"
HintNoKey == "No API key set. Run: wrangler secret put AI_GATEWAY_API_KEY (or ANTHROPIC_API_KEY)"
HintSecret == "Set these using: wrangler secret put <VARIABLE_NAME>"

VARIABLES
    req,        \* req[r]: the request's headers, [ws, html]
    pc,         \* pc[r]: position of the catch-all handler for request r
    ready,      \* ready[r]: isGatewayReady as observed by the handler's probe
    ens,        \* ens[r]: position/outcome of r's ensureMoltbotGateway call
    ensCalls,   \* ensCalls[r]: ensureMoltbotGateway invocations made for r
    flightOf,   \* flightOf[r]: the start (flight) r owned or joined, 0 = none
    sawStage,   \* sawStage[r]: stage of the start in flight when r reached the guard
    role,       \* role[r]: how r's call was served: fast, owner or joiner
    resp,       \* resp[r]: the response returned to the caller
    flight,     \* the single-flight guard and the start it protects
    gw,         \* status of the gateway process in the container
    spawns,     \* gateway processes exec'ed so far
    exits,      \* gateway processes that exited so far
    fs,         \* local config tree and remote backup tree
    fsBefore,   \* the trees as they were when the last restore phase began
    restores,   \* restore phases executed
    restoreLog, \* what the last restore phase echoed: restored or local
    now,        \* clock (the unit of the sync marker)
    cron,       \* the scheduled handler: [n, stage, log, before]
    host,       \* new URL(request.url).host
    env,        \* the worker's environment bindings (MoltbotEnv)
    serverWs,   \* serverWs[r]: the caller leg of r's relay, [st, code, reason]
    containerWs,\* containerWs[r]: the gateway leg of r's relay
    gwSent,     \* gwSent[r]: frames the gateway sent on r's session, in order
    gwNext,     \* gwNext[r]: message events of containerWs handled so far
    callerGot,  \* callerGot[r]: frames serverWs.send passed on, [from, data]
    callerSent, \* callerSent[r]: frames the caller sent, in order
    callerNext, \* callerNext[r]: message events of serverWs handled so far
    gwGot,      \* gwGot[r]: frames containerWs.send passed on, [from, data]
    detail,     \* detail[r]: the missing and hint members of r's error body
    bgLog       \* bgLog[r]: what the catch of r's background start logged

vars == <<req, pc, ready, ens, ensCalls, flightOf, sawStage, role, resp,
          flight, gw, spawns, exits, fs, fsBefore, restores, restoreLog,
          now, cron, host, env, serverWs, containerWs, gwSent, gwNext, callerGot,
          callerSent, callerNext, gwGot, detail,
          bgLog>>

reqVars == <<req, pc, ready, ens, ensCalls, flightOf, sawStage, role, resp,
             detail, bgLog>>
procVars == <<gw, spawns, exits>>
fsVars == <<fs, fsBefore, restores, restoreLog>>
cronVars == <<now, cron>>
legVars == <<serverWs, containerWs>>
frameVars == <<gwSent, gwNext, callerGot, callerSent, callerNext, gwGot>>
deployment == <<host, env>>
relayVars == <<deployment, legVars, frameVars>>

\* =================================================================
\* types.ts, env.ts: the worker's bindings and the container's environment
\* =================================================================

\* A binding is set when it holds a non-empty string; the model keeps the
\* value only where the code looks at it.
BaseUrls == {"", "https://gw/v1/acct/gw/compat", "https://gw/v1/acct/gw/anthropic"}
Models == {"", "openai/gpt-4o"}
Flags == {"", "true"}

MoltbotEnv ==
    [MOLTBOT_GATEWAY_TOKEN : BOOLEAN, CF_ACCESS_TEAM_DOMAIN : BOOLEAN,
     CF_ACCESS_AUD : BOOLEAN, CF_ACCOUNT_ID : BOOLEAN, AI_GATEWAY_ID : BOOLEAN,
     AI_GATEWAY_API_KEY : BOOLEAN, AI_GATEWAY_BASE_URL : BaseUrls,
     ANTHROPIC_API_KEY : BOOLEAN, OPENAI_API_KEY : BOOLEAN,
     DEFAULT_MODEL : Models, DEV_MODE : Flags, DEBUG_ROUTES : Flags]

\* A deployment with every required setting and the native AI Gateway.
NativeEnv ==
    [MOLTBOT_GATEWAY_TOKEN |-> TRUE, CF_ACCESS_TEAM_DOMAIN |-> TRUE,
     CF_ACCESS_AUD |-> TRUE, CF_ACCOUNT_ID |-> TRUE, AI_GATEWAY_ID |-> TRUE,
     AI_GATEWAY_API_KEY |-> TRUE, AI_GATEWAY_BASE_URL |-> "",
     ANTHROPIC_API_KEY |-> FALSE, OPENAI_API_KEY |-> FALSE,
     DEFAULT_MODEL |-> "", DEV_MODE |-> "", DEBUG_ROUTES |-> ""]

\* normalizedBaseUrl?.endsWith('/openai') || normalizedBaseUrl?.endsWith('/compat')
isOpenAIGateway(url) ==
    url = "https://gw/v1/acct/gw/compat"

\* buildEnvVars: the environment handed to the container process.
buildEnvVars(e) ==
    LET url == e.AI_GATEWAY_BASE_URL
        viaOpenAI == url # "" /\ isOpenAIGateway(url) /\ e.AI_GATEWAY_API_KEY
        viaAnthropic == url # "" /\ ~isOpenAIGateway(url) /\ e.AI_GATEWAY_API_KEY
    IN  [CF_ACCOUNT_ID |-> e.CF_ACCOUNT_ID,
         CLOUDFLARE_AI_GATEWAY_ACCOUNT_ID |-> e.CF_ACCOUNT_ID,
         CLOUDFLARE_AI_GATEWAY_GATEWAY_ID |-> e.AI_GATEWAY_ID,
         CLOUDFLARE_AI_GATEWAY_API_KEY |-> e.AI_GATEWAY_API_KEY,
         AI_GATEWAY_API_KEY |-> e.AI_GATEWAY_API_KEY,
         DEFAULT_MODEL |-> e.DEFAULT_MODEL,
         AI_GATEWAY_BASE_URL |-> url,
         OPENAI_BASE_URL |-> IF isOpenAIGateway(url) THEN url ELSE "",
         OPENAI_API_KEY |-> viaOpenAI \/ e.OPENAI_API_KEY,
         ANTHROPIC_BASE_URL |-> IF url # "" /\ ~isOpenAIGateway(url)
                                THEN url ELSE "",
         ANTHROPIC_API_KEY |-> viaAnthropic \/ e.ANTHROPIC_API_KEY,
         CLAWDBOT_GATEWAY_TOKEN |-> e.MOLTBOT_GATEWAY_TOKEN,
         CLAWDBOT_DEV_MODE |-> e.DEV_MODE]

\* =================================================================
\* start-moltbot.sh: the config document and its projection
\* =================================================================

\* What the model keeps of clawdbot.json: the keys of models.providers,
\* agents.defaults.model.primary, the families of keys under
\* agents.defaults.models, gateway.auth.token,
\* gateway.controlUi.allowInsecureAuth, and one member the script never
\* names (user).
Providers == {"anthropic", "openai", "cloudflare-ai-gateway", "ollama"}
Aliases == {"cloudflare-ai-gateway", "anthropic", "custom"}
NoDoc ==
    [providers |-> {}, primary |-> "", aliases |-> {}, token |-> "",
     insecure |-> FALSE, user |-> ""]

\* The document a stored config file holds.
Doc(content) ==
    CASE content = "a" -> [providers |-> {"anthropic", "openai"},
                           primary |-> "anthropic/claude-opus-4-5",
                           aliases |-> {"custom"}, token |-> "old",
                           insecure |-> FALSE, user |-> "a"]
      [] content = "b" -> [providers |-> {"openai", "cloudflare-ai-gateway",
                                          "ollama"},
                           primary |-> "openai/gpt-4o",
                           aliases |-> {}, token |-> "",
                           insecure |-> TRUE, user |-> "b"]
      [] OTHER -> NoDoc

projectGatewayFresh(doc, ce) ==
    [NoDoc EXCEPT !.token = IF ce.CLAWDBOT_GATEWAY_TOKEN THEN "env" ELSE @,
                  !.insecure = IF ce.CLAWDBOT_DEV_MODE = "true" THEN TRUE
                               ELSE @]

\* The gateway section of the node block: the token and the dev-mode switch
\* are set when the environment has them and left alone otherwise.
projectGateway(doc, ce) ==
    [doc EXCEPT !.token = IF ce.CLAWDBOT_GATEWAY_TOKEN THEN "env" ELSE @,
                !.insecure = IF ce.CLAWDBOT_DEV_MODE = "true" THEN TRUE
                             ELSE @]

\* accountId && apiKey
nativeSelected(ce) ==
    /\ ce.CLOUDFLARE_AI_GATEWAY_ACCOUNT_ID \/ ce.CF_ACCOUNT_ID
    /\ ce.CLOUDFLARE_AI_GATEWAY_API_KEY \/ ce.AI_GATEWAY_API_KEY

projectKeepingLegacy(doc, ce) ==
    IF nativeSelected(ce)
    THEN [doc EXCEPT
            !.providers = @ \cup {"cloudflare-ai-gateway"},
            !.aliases = @ \cup {"cloudflare-ai-gateway"},
            !.primary = IF ce.DEFAULT_MODEL # "" THEN ce.DEFAULT_MODEL
                        ELSE "cloudflare-ai-gateway/google-ai-studio/gemini-2.5-flash"]
    ELSE IF ce.ANTHROPIC_API_KEY
    THEN [doc EXCEPT !.aliases = @ \cup {"anthropic"},
                     !.primary = "anthropic/claude-opus-4-5-20251101"]
    ELSE [doc EXCEPT !.primary = "anthropic/claude-opus-4-5"]

\* The provider branch of the node block: the native provider replaces the
\* anthropic and openai entries; otherwise only the primary model is set.
projectProviders(doc, ce) ==
    IF nativeSelected(ce)
    THEN [doc EXCEPT
            !.providers = (@ \ {"anthropic", "openai"})
                              \cup {"cloudflare-ai-gateway"},
            !.aliases = @ \cup {"cloudflare-ai-gateway"},
            !.primary = IF ce.DEFAULT_MODEL # "" THEN ce.DEFAULT_MODEL
                        ELSE "cloudflare-ai-gateway/google-ai-studio/gemini-2.5-flash"]
    ELSE IF ce.ANTHROPIC_API_KEY
    THEN [doc EXCEPT !.aliases = @ \cup {"anthropic"},
                     !.primary = "anthropic/claude-opus-4-5-20251101"]
    ELSE [doc EXCEPT !.primary = "anthropic/claude-opus-4-5"]

\* =================================================================
\* start-moltbot.sh: restore from R2
\* =================================================================

\* [ -f "$BACKUP_DIR/clawdbot/clawdbot.json" ], [ -f "$CONFIG_FILE" ], ...
hasFile(f) ==
    f # NoFile

r2NewerOrEqual(r2Time, localTime) ==
    r2Time >= localTime

\* [ "$R2_TIME" -gt "$LOCAL_TIME" ]
r2Newer(r2Time, localTime) ==
    r2Time > localTime

\* Both sync files exist and the R2 one holds the strictly greater value.
markersSayRestore(t) ==
    /\ t.rMark # NoMarker
    /\ t.lMark # NoMarker
    /\ r2Newer(t.rMark, t.lMark)

should_restore_ignoring_local(t) ==
    IF ~hasFile(t.rCfg) THEN FALSE
    ELSE markersSayRestore(t)

should_restore_always(t) ==
    TRUE

should_restore_from_r2(t) ==
    IF ~hasFile(t.rCfg) THEN FALSE
    ELSE IF ~hasFile(t.lCfg) THEN TRUE
    ELSE markersSayRestore(t)

cpMirror(src, dst) ==
    src

\* cp -r src/* dst/ for one file: an existing source file overwrites the
\* destination, a missing one leaves the destination as it is.
cpOver(src, dst) ==
    IF hasFile(src) THEN src ELSE dst

\* [ -d "$BACKUP_DIR/skills" ] && [ "$(ls -A $BACKUP_DIR/skills)" ]
skillsNonEmpty(s) ==
    s # NoDir /\ s # NoFile

\* The body of the restore block: config directory, then skills.
copyFromR2(t) ==
    [t EXCEPT !.lCfg = cpOver(t.rCfg, @),
              !.lDoc = IF hasFile(t.rCfg) THEN t.rDoc ELSE @,
              !.lExtra = cpOver(t.rExtra, @),
              !.lSkills = IF skillsNonEmpty(t.rSkills) THEN t.rSkills ELSE @]

restoreBlockStampsMarker(t) ==
    IF should_restore_from_r2(t) THEN copyFromR2(t)
    ELSE [t EXCEPT !.lMark = t.rMark]

restoreBlock(t) ==
    IF should_restore_from_r2(t) THEN copyFromR2(t) ELSE t

\* If the config file still does not exist, create it from the template.
createConfigIfMissing(t) ==
    IF ~hasFile(t.lCfg) THEN [t EXCEPT !.lCfg = "template", !.lDoc = NoDoc]
    ELSE t

\* The node block rewrites the config with the environment's values and the
\* script then removes stale lock files.
configureFromEnv(t, ce) ==
    [t EXCEPT !.lCfg = "configured",
              !.lDoc = projectProviders(projectGateway(@, ce), ce),
              !.lock = FALSE]

\* pgrep -f "clawdbot gateway": a gateway process exists in the container.
pgrepNever(g) ==
    FALSE

pgrepReadyOnly(g) ==
    g = "running"

pgrepGateway(g) ==
    g \in {"starting", "running"}

\* =================================================================
\* syncToR2 and the scheduled handler
\* =================================================================

\* Copy the local config and skills trees to the remote backup root.
pushCopy(t) ==
    [t EXCEPT !.rCfg = cpOver(t.lCfg, @),
              !.rDoc = IF hasFile(t.lCfg) THEN t.lDoc ELSE @,
              !.rExtra = cpOver(t.lExtra, @),
              !.rSkills = IF skillsNonEmpty(t.lSkills) THEN t.lSkills ELSE @]

syncToR2MarksAlways(t, time, ok, partial) ==
    [tree |-> [pushCopy(t) EXCEPT !.rMark = time],
     success |-> ok, lastSync |-> time,
     error |-> IF ok THEN "" ELSE "Sync failed"]

syncToR2KeepsMarker(t, time, ok, partial) ==
    [tree |-> pushCopy(t), success |-> ok, lastSync |-> t.rMark,
     error |-> IF ok THEN "" ELSE "Sync failed"]

\* A push that succeeds writes a fresh marker (the current time) after the
\* copy; one that fails may have copied some files and writes no marker.
syncToR2(t, time, ok, partial) ==
    IF ok
    THEN [tree |-> [pushCopy(t) EXCEPT !.rMark = time],
          success |-> TRUE, lastSync |-> time, error |-> ""]
    ELSE [tree |-> IF partial THEN pushCopy(t) ELSE t,
          success |-> FALSE, lastSync |-> NoMarker, error |-> "Sync failed"]

cronRetriesFailure(result) ==
    IF result.success THEN "idle" ELSE "syncing"

\* After logging either outcome the handler returns.
cronAfterSync(result) ==
    "idle"

\* if (result.success) console.log(...) else console.error(...)
cronLogLine(result) ==
    IF result.success THEN "completed" ELSE "failed"

\* =================================================================
\* ProcessProbe and the single-flight guard of ensureMoltbotGateway
\* =================================================================

\* The probe reports the status of the gateway process, or "absent".
findExistingMoltbotProcess(g) ==
    IF g = "exited" THEN "absent" ELSE g

\* existingProcess !== null && existingProcess.status === 'running'
isGatewayReady(p) ==
    p # "absent" /\ p = "running"

\* The guard is held from the moment a start is kicked off until its
\* readiness poll has completed.
guardUntilSpawned(f) ==
    f.stage \in {"pgrep", "restore", "configure"}

startInFlight(f) ==
    f.stage # "idle"

\* One readiness poll: running ends the start with success, an exited
\* process or an exhausted poll budget ends it with a StartupError.
pollNoTimeout(g, polls) ==
    IF g = "running" THEN "ok"
    ELSE IF g = "exited" THEN "err"
    ELSE "wait"

pollVerdict(g, polls) ==
    IF g = "running" THEN "ok"
    ELSE IF g = "exited" THEN "err"
    ELSE IF polls >= MaxPolls THEN "err"
    ELSE "wait"

\* What a caller attached to the start observes when the start settles.
joinerSeesSuccess(outcome, r) ==
    IF role[r] = "joiner" THEN "ok" ELSE outcome

sharedOutcome(outcome, r) ==
    outcome

\* =================================================================
\* index.ts: the catch-all proxy handler
\* =================================================================

loadingNever(isReady, ws, html) ==
    FALSE

loadingIgnoringUpgrade(isReady, ws, html) ==
    ~isReady /\ html

\* if (!isGatewayReady && !isWebSocketRequest && acceptsHtml)
servesLoadingPage(isReady, ws, html) ==
    ~isReady /\ ~ws /\ html

backgroundUncaught(outcome) ==
    "none"

\* .catch((err) => console.error('[PROXY] Background gateway start
\* failed:', err)) on the promise handed to waitUntil.
backgroundCatch(outcome) ==
    IF outcome = "err" THEN "failed" ELSE "none"

\* The catch block: an HTML page for browsers, JSON otherwise, both 500.
startFailureResponse(html) ==
    IF html THEN ErrorHtml ELSE ErrorJson

\* The hint of the catch block: it names the missing API key when neither
\* AI_GATEWAY_API_KEY nor ANTHROPIC_API_KEY is set.
startFailureHint(e) ==
    IF ~(e.AI_GATEWAY_API_KEY \/ e.ANTHROPIC_API_KEY) THEN HintNoKey
    ELSE HintLogs

\* What the 500 body carries besides the error message: the JSON body has
\* a hint member, the page is the template filled with the message alone.
startFailureDetail(html, e) ==
    IF html THEN NoDetail
    ELSE [missing |-> <<>>, hint |-> startFailureHint(e)]

\* =================================================================
\* index.ts: validateRequiredEnv and the middleware chain
\* =================================================================

Paths == {"/", "/debug/env", "/debugger"}

\* url.pathname.startsWith('/debug')
startsWithDebug(path) ==
    path \in {"/debug/env", "/debugger"}

\* The paths matched by app.use('/debug/*').
debugGated(path) ==
    path \in {"/debug/env"}

AIProviderMissing == "AI provider configuration"

\* The descriptions of the required settings that are not set, in the order
\* the function pushes them.
validateRequiredEnv(e) ==
    LET hasNativeAIGateway ==
            e.CF_ACCOUNT_ID /\ (e.AI_GATEWAY_ID \/ e.AI_GATEWAY_API_KEY)
        hasLegacyAIGateway ==
            e.AI_GATEWAY_API_KEY /\ e.AI_GATEWAY_BASE_URL # ""
        hasDirectAnthropic == e.ANTHROPIC_API_KEY
    IN  (IF ~e.MOLTBOT_GATEWAY_TOKEN THEN <<"MOLTBOT_GATEWAY_TOKEN">>
         ELSE <<>>)
        \o (IF ~e.CF_ACCESS_TEAM_DOMAIN THEN <<"CF_ACCESS_TEAM_DOMAIN">>
            ELSE <<>>)
        \o (IF ~e.CF_ACCESS_AUD THEN <<"CF_ACCESS_AUD">> ELSE <<>>)
        \o (IF ~hasNativeAIGateway /\ ~hasLegacyAIGateway
               /\ ~hasDirectAnthropic
            THEN <<AIProviderMissing>> ELSE <<>>)

validatesNothing(path, e) ==
    FALSE

validatesInDevMode(path, e) ==
    ~startsWithDebug(path)

\* The validation middleware runs its check unless the path starts with
\* /debug or DEV_MODE is 'true'.
validates(path, e) ==
    ~startsWithDebug(path) /\ e.DEV_MODE # "true"

\* The 503 of the validation middleware.
configErrorResponse(html) ==
    IF html THEN ConfigErrorHtml ELSE ConfigErrorJson

\* The page shows the joined list; the JSON body has missing and hint.
configErrorDetail(html, missingVars) ==
    IF html THEN [missing |-> missingVars, hint |-> ""]
    ELSE [missing |-> missingVars, hint |-> HintSecret]

\* app.use('/debug/*'): 404 unless DEBUG_ROUTES is 'true', else the debug
\* router answers.
debugResponse(e) ==
    IF e.DEBUG_ROUTES # "true" THEN DebugDisabled ELSE DebugRouted

\* The forwarding section reached after a successful ensureMoltbotGateway.
forwardResponse(ws, gotSocket) ==
    IF ws THEN (IF gotSocket THEN WsAccepted ELSE WsFailed)
    ELSE Forwarded

\* =================================================================
\* index.ts: the WebSocket relay
\* =================================================================

Hosts == {"bot.example.com", "dev.example.com"}

Phrases == {"gateway token missing", "gateway token mismatch",
            "pairing required"}

\* An error message is known by the phrases it contains; the two guidance
\* texts name the host and contain none of the phrases.
NoMsg == [kind |-> "none", has |-> {}, host |-> ""]
MsgEmpty == [kind |-> "empty", has |-> {}, host |-> ""]
MsgRaw(S) == [kind |-> "raw", has |-> S, host |-> ""]
\* `Invalid or missing token. Visit https://${host}?token={REPLACE_WITH_YOUR_TOKEN}`
TokenGuidance(h) == [kind |-> "token", has |-> {}, host |-> h]
\* `Pairing required. Visit https://${host}/_admin/`
PairingGuidance(h) == [kind |-> "pairing", has |-> {}, host |-> h]

\* message.includes(phrase)
includes(message, phrase) ==
    phrase \in message.has

\* The token phrases are tested before the pairing phrase; a message with
\* neither is returned as it is.
transformErrorMessage(message, h) ==
    IF includes(message, "gateway token missing")
       \/ includes(message, "gateway token mismatch")
    THEN TokenGuidance(h)
    ELSE IF includes(message, "pairing required") THEN PairingGuidance(h)
    ELSE message

\* A frame is binary or text. A text is known by what JSON.parse makes of it
\* (top: a SyntaxError, an array, an object; errType and msg: the type and
\* value of the object's top-level error member), by how it is written
\* (fmt: as JSON.stringify writes it, with insignificant whitespace, or with
\* the member name error spelled with a \u escape) and by whether "error"
\* in quotes occurs in it anywhere else (nested).
Formats == {"canonical", "spaced", "escaped"}

Binary ==
    [type |-> "binary", top |-> "invalid", errType |-> "absent",
     msg |-> NoMsg, nested |-> FALSE, fmt |-> "canonical"]

PlainText(nested) ==
    [type |-> "text", top |-> "invalid", errType |-> "absent",
     msg |-> NoMsg, nested |-> nested, fmt |-> "canonical"]

JsonArray ==
    [type |-> "text", top |-> "array", errType |-> "absent",
     msg |-> NoMsg, nested |-> TRUE, fmt |-> "canonical"]

JsonObject(errType, msg, nested, fmt) ==
    [type |-> "text", top |-> "object", errType |-> errType,
     msg |-> msg, nested |-> nested, fmt |-> fmt]

PhraseSets ==
    {{}, {"gateway token missing"}, {"gateway token mismatch"},
     {"pairing required"}, {"gateway token missing", "pairing required"}}

ErrorMessages == {MsgEmpty} \cup {MsgRaw(S) : S \in PhraseSets}

\* Frames with a top-level error string: every message as JSON.stringify
\* writes it, one with whitespace, one with the member name escaped.
ErrorFrames ==
    {JsonObject("string", m, FALSE, "canonical") : m \in ErrorMessages}
    \cup {JsonObject("string", MsgRaw({}), FALSE, "spaced"),
          JsonObject("string", MsgRaw({"pairing required"}), FALSE, "escaped")}

GatewayFrames ==
    {Binary, JsonArray}
    \cup {PlainText(n) : n \in BOOLEAN}
    \cup {JsonObject("absent", NoMsg, n, IF n THEN "spaced" ELSE "canonical") :
             n \in BOOLEAN}
    \cup {JsonObject("number", NoMsg, FALSE, "spaced")}
    \cup ErrorFrames

CallerFrames ==
    {Binary, JsonObject("string", MsgRaw({"pairing required"}), FALSE, "spaced")}

\* typeof data === 'string'
isString(data) ==
    data.type = "text"

\* data.includes('"error"')
includesErrorLiteral(data) ==
    \/ data.nested
    \/ data.top = "object" /\ data.errType # "absent" /\ data.fmt # "escaped"

\* JSON.parse(data): the value, or a SyntaxError.
JSONparse(data) ==
    [ok |-> data.top # "invalid", top |-> data.top, errType |-> data.errType,
     msg |-> data.msg, nested |-> data.nested]

\* JSON.stringify(parsed): the value written without whitespace or escapes.
JSONstringify(parsed) ==
    [type |-> "text", top |-> parsed.top, errType |-> parsed.errType,
     msg |-> parsed.msg, nested |-> parsed.nested, fmt |-> "canonical"]

\* parsed.error && typeof parsed.error === 'string'
hasErrorString(parsed) ==
    parsed.errType = "string" /\ parsed.msg.kind # "empty"

\* What the message listener of containerWs hands to serverWs.send.
containerWsOnMessage(data, h) ==
    IF isString(data) /\ includesErrorLiteral(data)
    THEN LET parsed == JSONparse(data) IN
         IF parsed.ok /\ hasErrorString(parsed)
         THEN JSONstringify(
                  [parsed EXCEPT !.msg = transformErrorMessage(@, h)])
         ELSE data
    ELSE data

\* What the message listener of serverWs hands to containerWs.send.
serverWsOnMessage(data) ==
    data

\* The two legs of a relay.
NoLeg == [st |-> "none", code |-> 0, reason |-> ""]
OpenLeg == [st |-> "open", code |-> 0, reason |-> ""]
ClosedLeg(code, reason) == [st |-> "closed", code |-> code, reason |-> reason]

\* Close events a peer can cause: a close frame with a code and reason, one
\* without a status code (1005), a connection lost without a close frame
\* (1006).
CloseEvents ==
    { [code |-> 1000, reason |-> "bye"],
      [code |-> 1005, reason |-> ""], [code |-> 1006, reason |-> ""] }

\* The codes close() accepts; it throws a TypeError for every other one.
validCloseCode(code) ==
    /\ code >= 1000 /\ code < 5000
    /\ code \notin {1004, 1005, 1006, 1015}

\* ws.close(code, reason) on a leg: an invalid code throws and leaves the
\* leg as it is, closing a leg that is not open changes nothing.
wsClose(leg, code, reason) ==
    IF ~validCloseCode(code) THEN leg
    ELSE IF leg.st # "open" THEN leg
    ELSE ClosedLeg(code, reason)

\* ws.send(data) on a leg throws unless the leg is open; both message
\* listeners catch and log the exception.
sendDelivers(leg) ==
    leg.st = "open"

deliverFirst(log, n, data) ==
    <<[from |-> n, data |-> data]>> \o log

\* The frame passed on joins the frames already passed on to that peer.
deliver(log, n, data) ==
    Append(log, [from |-> n, data |-> data])

\* =================================================================
\* Initial states
\* =================================================================

IdleFlight == [id |-> 0, stage |-> "idle", polls |-> 0]
NoResult == [success |-> FALSE, lastSync |-> NoMarker, error |-> ""]
IdleCron ==
    [n |-> 0, stage |-> "idle", log |-> "none", before |-> NoMarker,
     calls |-> 0, result |-> NoResult]

\* A container whose disk holds no config yet, or one left by an earlier
\* start, next to an R2 bucket with or without a backup.
ColdTrees ==
    { [rCfg |-> rc, rExtra |-> NoFile,
       rMark |-> IF rc = NoFile THEN NoMarker ELSE MaxMarker,
       rSkills |-> IF rc = NoFile THEN NoDir ELSE rc,
       lCfg |-> NoFile, lExtra |-> NoFile, lMark |-> NoMarker,
       lSkills |-> NoDir, lock |-> TRUE,
       rDoc |-> Doc(rc), lDoc |-> NoDoc] :
        rc \in {NoFile, "a"} }

\* Every combination of files and markers the two trees can hold.
AllTrees ==
    { t @@ [rDoc |-> Doc(t.rCfg), lDoc |-> Doc(t.lCfg)] :
        t \in [rCfg : {NoFile} \cup Contents, rExtra : {NoFile, "a"},
               rMark : Markers, rSkills : {NoDir, NoFile, "a"},
               lCfg : {NoFile} \cup Contents, lExtra : {NoFile, "b"},
               lMark : Markers, lSkills : {NoDir, NoFile, "b"},
               lock : {TRUE}] }

\* A container restarted on a disk that kept its config and sync marker,
\* next to a backup as old as the local tree or newer.
WarmTrees ==
    { [rCfg |-> "a", rExtra |-> NoFile, rMark |-> rm, rSkills |-> "a",
       lCfg |-> "b", lExtra |-> "b", lMark |-> 0,
       lSkills |-> "b", lock |-> TRUE,
       rDoc |-> Doc("a"), lDoc |-> Doc("b")] :
        rm \in {0, MaxMarker} }

InitRequests ==
    /\ req = [r \in Req |-> [ws |-> FALSE, html |-> FALSE, path |-> "/"]]
    /\ pc = [r \in Req |-> "idle"]
    /\ ready = [r \in Req |-> FALSE]
    /\ ens = [r \in Req |-> "none"]
    /\ ensCalls = [r \in Req |-> 0]
    /\ flightOf = [r \in Req |-> 0]
    /\ sawStage = [r \in Req |-> "none"]
    /\ role = [r \in Req |-> "none"]
    /\ resp = [r \in Req |-> NoResp]
    /\ detail = [r \in Req |-> NoDetail]
    /\ bgLog = [r \in Req |-> "none"]
    /\ flight = IdleFlight
    /\ gw = "absent"
    /\ spawns = 0
    /\ exits = 0

\* No WebSocket session has been set up.
InitRelayVars ==
    /\ serverWs = [r \in Req |-> NoLeg]
    /\ containerWs = [r \in Req |-> NoLeg]
    /\ gwSent = [r \in Req |-> <<>>]
    /\ gwNext = [r \in Req |-> 0]
    /\ callerGot = [r \in Req |-> <<>>]
    /\ callerSent = [r \in Req |-> <<>>]
    /\ callerNext = [r \in Req |-> 0]
    /\ gwGot = [r \in Req |-> <<>>]

Init ==
    /\ InitRequests
    /\ fs \in ColdTrees
    /\ fsBefore = fs
    /\ restores = 0
    /\ restoreLog = "none"
    /\ now = MaxMarker
    /\ cron = IdleCron
    /\ host = "bot.example.com"
    /\ env = NativeEnv
    /\ InitRelayVars

\* =================================================================
\* index.ts: app.all('*')
\* =================================================================

\* A request passes the middleware chain: a path outside /debug in a
\* deployment not in dev mode is answered 503 when a required setting is
\* missing; a /debug path is answered by the debug gate; every other request
\* reaches the catch-all route and awaits the process probe.
Receive(r, ws, html, path) ==
    /\ pc[r] = "idle"
    /\ \A q \in Req : q < r => pc[q] # "idle"
    /\ req' = [req EXCEPT ![r] = [ws |-> ws, html |-> html, path |-> path]]
    /\ LET missingVars == validateRequiredEnv(env) IN
        IF validates(path, env) /\ Len(missingVars) > 0
        THEN /\ resp' = [resp EXCEPT ![r] = configErrorResponse(html)]
             /\ detail' = [detail EXCEPT ![r] =
                              configErrorDetail(html, missingVars)]
             /\ pc' = [pc EXCEPT ![r] = "done"]
        ELSE IF debugGated(path)
        THEN /\ resp' = [resp EXCEPT ![r] = debugResponse(env)]
             /\ detail' = detail
             /\ pc' = [pc EXCEPT ![r] = "done"]
        ELSE /\ resp' = resp
             /\ detail' = detail
             /\ pc' = [pc EXCEPT ![r] = "probing"]
    /\ UNCHANGED <<ready, ens, ensCalls, flightOf, sawStage, role, bgLog>>
    /\ UNCHANGED <<flight, procVars, fsVars, cronVars>>
    /\ UNCHANGED relayVars

\* A request for a path of the catch-all route.
Arrive(r, ws, html) == Receive(r, ws, html, "/")

\* The probe answers; a browser request that finds the gateway not ready
\* schedules the start in the background and returns the loading page,
\* every other request goes on to await ensureMoltbotGateway.
HandlerProbe(r) ==
    /\ pc[r] = "probing"
    /\ LET isReady == isGatewayReady(findExistingMoltbotProcess(gw)) IN
        /\ ready' = [ready EXCEPT ![r] = isReady]
        /\ ens' = [ens EXCEPT ![r] = "probe"]
        /\ ensCalls' = [ensCalls EXCEPT ![r] = @ + 1]
        /\ IF servesLoadingPage(isReady, req[r].ws, req[r].html)
           THEN /\ resp' = [resp EXCEPT ![r] = LoadingPage]
                /\ pc' = [pc EXCEPT ![r] = "done"]
           ELSE /\ resp' = resp
                /\ pc' = [pc EXCEPT ![r] = "ensuring"]
    /\ UNCHANGED <<req, flightOf, sawStage, role, detail, bgLog>>
    /\ UNCHANGED <<flight, procVars, fsVars, cronVars>>
    /\ UNCHANGED relayVars

\* The awaited ensureMoltbotGateway has settled: a failure becomes the 500
\* of the catch block, a success lets the handler go on to forward.
HandlerAfterEnsure(r) ==
    /\ pc[r] = "ensuring"
    /\ ens[r] \in {"ok", "err"}
    /\ IF ens[r] = "err"
       THEN /\ resp' = [resp EXCEPT ![r] = startFailureResponse(req[r].html)]
            /\ detail' = [detail EXCEPT ![r] =
                             startFailureDetail(req[r].html, env)]
            /\ pc' = [pc EXCEPT ![r] = "done"]
       ELSE /\ resp' = resp
            /\ detail' = detail
            /\ pc' = [pc EXCEPT ![r] = "forwarding"]
    /\ UNCHANGED <<req, ready, ens, ensCalls, flightOf, sawStage, role, bgLog>>
    /\ UNCHANGED <<flight, procVars, fsVars, cronVars>>
    /\ UNCHANGED relayVars

\* containerFetch: an upgrade is answered with 101 when the container
\* returns a socket and with a plain 500 otherwise, any other request with
\* the gateway's response.
HandlerForward(r) ==
    /\ pc[r] = "forwarding"
    /\ resp' = [resp EXCEPT ![r] = forwardResponse(req[r].ws, gw = "running")]
    /\ pc' = [pc EXCEPT ![r] = "done"]
    /\ serverWs' = [serverWs EXCEPT ![r] =
                       IF ~req[r].ws THEN @
                       ELSE IF gw = "running" THEN OpenLeg
                       ELSE wsClose(OpenLeg, 1011,
                                    "Container WebSocket connection failed")]
    /\ containerWs' = [containerWs EXCEPT ![r] =
                          IF req[r].ws /\ gw = "running" THEN OpenLeg ELSE @]
    /\ UNCHANGED <<req, ready, ens, ensCalls, flightOf, sawStage, role, detail, bgLog>>
    /\ UNCHANGED <<flight, procVars, fsVars, cronVars, deployment, frameVars>>

\* =================================================================
\* ensureMoltbotGateway
\* =================================================================

\* Step 1: probe; a running gateway is the fast path.
EnsureProbe(r) ==
    /\ ens[r] = "probe"
    /\ IF findExistingMoltbotProcess(gw) = "running"
       THEN /\ ens' = [ens EXCEPT ![r] = "ok"]
            /\ role' = [role EXCEPT ![r] = "fast"]
       ELSE /\ ens' = [ens EXCEPT ![r] = "guard"]
            /\ role' = role
    /\ UNCHANGED <<req, pc, ready, ensCalls, flightOf, sawStage, resp, detail, bgLog>>
    /\ UNCHANGED <<flight, procVars, fsVars, cronVars>>
    /\ UNCHANGED relayVars

\* Step 2: the single-flight guard. A caller that finds a start in flight
\* awaits it; otherwise it kicks off a start and launches the startup script.
EnsureGuard(r) ==
    /\ ens[r] = "guard"
    /\ sawStage' = [sawStage EXCEPT ![r] = flight.stage]
    /\ IF startInFlight(flight)
       THEN /\ ens' = [ens EXCEPT ![r] = "joined"]
            /\ role' = [role EXCEPT ![r] = "joiner"]
            /\ flightOf' = [flightOf EXCEPT ![r] = flight.id]
            /\ flight' = flight
       ELSE /\ ens' = [ens EXCEPT ![r] = "owner"]
            /\ role' = [role EXCEPT ![r] = "owner"]
            /\ flightOf' = [flightOf EXCEPT ![r] = flight.id + 1]
            /\ flight' = [id |-> flight.id + 1, stage |-> "pgrep", polls |-> 0]
    /\ UNCHANGED <<req, pc, ready, ensCalls, resp, detail, bgLog>>
    /\ UNCHANGED <<procVars, fsVars, cronVars>>
    /\ UNCHANGED relayVars

\* =================================================================
\* start-moltbot.sh, run by the start in flight
\* =================================================================

\* The already-running guard: exit 0 when a gateway process exists.
ScriptPgrep ==
    /\ flight.stage = "pgrep"
    /\ flight' = [flight EXCEPT !.stage =
                      IF pgrepGateway(gw) THEN "poll" ELSE "restore"]
    /\ UNCHANGED <<reqVars, procVars, fsVars, cronVars>>
    /\ UNCHANGED relayVars

\* The restore phase: restore from R2 if appropriate.
ScriptRestore ==
    /\ flight.stage = "restore"
    /\ fsBefore' = fs
    /\ fs' = restoreBlock(fs)
    /\ restores' = restores + 1
    /\ restoreLog' = IF should_restore_from_r2(fs) THEN "restored" ELSE "local"
    /\ flight' = [flight EXCEPT !.stage = "configure"]
    /\ UNCHANGED <<reqVars, procVars, cronVars>>
    /\ UNCHANGED relayVars

\* Create the config if still missing, configure from the environment,
\* clean up lock files, exec the gateway.
ScriptExec ==
    /\ flight.stage = "configure"
    /\ fs' = configureFromEnv(createConfigIfMissing(fs), buildEnvVars(env))
    /\ gw' = "starting"
    /\ spawns' = spawns + 1
    /\ flight' = [flight EXCEPT !.stage = "poll"]
    /\ UNCHANGED <<reqVars, exits, fsBefore, restores, restoreLog, cronVars>>
    /\ UNCHANGED relayVars

\* Step 6: one readiness poll; the verdict settles the start for its owner
\* and for every caller that joined it, and releases the guard.
Poll ==
    /\ flight.stage = "poll"
    /\ LET v == pollVerdict(gw, flight.polls) IN
        IF v = "wait"
        THEN /\ flight.polls < MaxPolls
             /\ flight' = [flight EXCEPT !.polls = @ + 1]
             /\ UNCHANGED <<ens, bgLog>>
        ELSE /\ flight' = [flight EXCEPT !.stage = "idle"]
             /\ ens' = [r \in Req |->
                           IF ens[r] \in {"owner", "joined"}
                              /\ flightOf[r] = flight.id
                           THEN sharedOutcome(v, r) ELSE ens[r]]
             /\ bgLog' = [r \in Req |->
                             IF /\ ens[r] \in {"owner", "joined"}
                                /\ flightOf[r] = flight.id
                                /\ servesLoadingPage(ready[r], req[r].ws,
                                                     req[r].html)
                             THEN backgroundCatch(sharedOutcome(v, r))
                             ELSE bgLog[r]]
    /\ UNCHANGED <<req, pc, ready, ensCalls, flightOf, sawStage, role, resp, detail>>
    /\ UNCHANGED <<procVars, fsVars, cronVars>>
    /\ UNCHANGED relayVars

\* The gateway binds its port.
GatewayReady ==
    /\ gw = "starting"
    /\ gw' = "running"
    /\ UNCHANGED <<reqVars, flight, spawns, exits, fsVars, cronVars>>
    /\ UNCHANGED relayVars

\* The gateway process exits (crash or failed start).
GatewayExit ==
    /\ gw \in {"starting", "running"}
    /\ gw' = "exited"
    /\ exits' = exits + 1
    /\ UNCHANGED <<reqVars, flight, spawns, fsVars, cronVars>>
    /\ UNCHANGED relayVars

\* =================================================================
\* index.ts: scheduled
\* =================================================================

\* Time passes.
Tick ==
    /\ now < MaxMarker + MaxCron + 1
    /\ now' = now + 1
    /\ UNCHANGED <<reqVars, flight, procVars, fsVars, cron>>
    /\ UNCHANGED relayVars

\* The cron trigger fires at its next slot and the handler awaits syncToR2.
ScheduledStart ==
    /\ cron.stage = "idle"
    /\ cron.n < MaxCron
    /\ now' = now + 1
    /\ cron' = [n |-> cron.n + 1, stage |-> "syncing", log |-> "none",
                before |-> fs.rMark, calls |-> 0, result |-> NoResult]
    /\ UNCHANGED <<reqVars, flight, procVars, fsVars>>
    /\ UNCHANGED relayVars

\* syncToR2 returns its result and the handler logs it.
ScheduledFinish(ok, partial) ==
    /\ cron.stage = "syncing"
    /\ LET result == syncToR2(fs, now, ok, partial) IN
        /\ fs' = result.tree
        /\ cron' = [cron EXCEPT !.stage = cronAfterSync(result),
                                !.log = cronLogLine(result),
                                !.calls = @ + 1,
                                !.result = [success |-> result.success,
                                            lastSync |-> result.lastSync,
                                            error |-> result.error]]
    /\ UNCHANGED <<reqVars, flight, procVars, fsBefore, restores, restoreLog,
                   now>>
    /\ UNCHANGED relayVars

Next ==
    \/ \E r \in Req, ws \in BOOLEAN, html \in BOOLEAN : Arrive(r, ws, html)
    \/ \E r \in Req : HandlerProbe(r)
    \/ \E r \in Req : HandlerAfterEnsure(r)
    \/ \E r \in Req : HandlerForward(r)
    \/ \E r \in Req : EnsureProbe(r)
    \/ \E r \in Req : EnsureGuard(r)
    \/ ScriptPgrep
    \/ ScriptRestore
    \/ ScriptExec
    \/ Poll
    \/ GatewayReady
    \/ GatewayExit

Spec == Init /\ [][Next]_vars

\* -----------------------------------------------------------------
\* The startup script on every combination of local and remote trees: a
\* start is in flight and its script has just been launched.
InitRestore ==
    /\ req = [r \in Req |-> [ws |-> FALSE, html |-> r = 1, path |-> "/"]]
    /\ pc = [r \in Req |-> IF r = 1 THEN "done" ELSE "idle"]
    /\ ready = [r \in Req |-> FALSE]
    /\ ens = [r \in Req |-> IF r = 1 THEN "owner" ELSE "none"]
    /\ ensCalls = [r \in Req |-> IF r = 1 THEN 1 ELSE 0]
    /\ flightOf = [r \in Req |-> IF r = 1 THEN 1 ELSE 0]
    /\ sawStage = [r \in Req |-> "none"]
    /\ role = [r \in Req |-> IF r = 1 THEN "owner" ELSE "none"]
    /\ resp = [r \in Req |-> IF r = 1 THEN LoadingPage ELSE NoResp]
    /\ detail = [r \in Req |-> NoDetail]
    /\ bgLog = [r \in Req |-> "none"]
    /\ flight = [id |-> 1, stage |-> "pgrep", polls |-> 0]
    /\ gw = "absent"
    /\ spawns = 0
    /\ exits = 0
    /\ fs \in AllTrees
    /\ fsBefore = fs
    /\ restores = 0
    /\ restoreLog = "none"
    /\ now = MaxMarker
    /\ cron = IdleCron
    /\ host = "bot.example.com"
    /\ env = NativeEnv
    /\ InitRelayVars

NextRestore ==
    \/ ScriptPgrep
    \/ ScriptRestore
    \/ ScriptExec
    \/ Poll
    \/ GatewayReady
    \/ GatewayExit

SpecRestore == InitRestore /\ [][NextRestore]_vars

\* -----------------------------------------------------------------
\* The startup script under every provider configuration of the worker, on
\* trees whose config files hold documents with and without legacy
\* provider entries.
ProviderEnvs ==
    {e \in MoltbotEnv :
        /\ e.MOLTBOT_GATEWAY_TOKEN /\ e.CF_ACCESS_TEAM_DOMAIN /\ e.CF_ACCESS_AUD
        /\ e.DEV_MODE = "" /\ e.DEBUG_ROUTES = ""}

ConfigTrees ==
    {t \in AllTrees :
        /\ t.rExtra = NoFile /\ t.lExtra = NoFile
        /\ t.rSkills = NoDir /\ t.lSkills = NoDir
        /\ t.rMark = NoMarker /\ t.lMark = NoMarker}

InitConfig ==
    /\ req = [r \in Req |-> [ws |-> FALSE, html |-> r = 1, path |-> "/"]]
    /\ pc = [r \in Req |-> IF r = 1 THEN "done" ELSE "idle"]
    /\ ready = [r \in Req |-> FALSE]
    /\ ens = [r \in Req |-> IF r = 1 THEN "owner" ELSE "none"]
    /\ ensCalls = [r \in Req |-> IF r = 1 THEN 1 ELSE 0]
    /\ flightOf = [r \in Req |-> IF r = 1 THEN 1 ELSE 0]
    /\ sawStage = [r \in Req |-> "none"]
    /\ role = [r \in Req |-> IF r = 1 THEN "owner" ELSE "none"]
    /\ resp = [r \in Req |-> IF r = 1 THEN LoadingPage ELSE NoResp]
    /\ detail = [r \in Req |-> NoDetail]
    /\ bgLog = [r \in Req |-> "none"]
    /\ flight = [id |-> 1, stage |-> "pgrep", polls |-> 0]
    /\ gw = "absent"
    /\ spawns = 0
    /\ exits = 0
    /\ fs \in ConfigTrees
    /\ fsBefore = fs
    /\ restores = 0
    /\ restoreLog = "none"
    /\ now = MaxMarker
    /\ cron = IdleCron
    /\ host = "bot.example.com"
    /\ env \in ProviderEnvs
    /\ InitRelayVars

SpecConfig == InitConfig /\ [][NextRestore]_vars

\* -----------------------------------------------------------------
\* Gateway starts triggered by API requests, interleaved with the
\* scheduled push.
NextSync ==
    \/ \E r \in Req : Arrive(r, FALSE, FALSE)
    \/ \E r \in Req : HandlerProbe(r)
    \/ \E r \in Req : HandlerAfterEnsure(r)
    \/ \E r \in Req : HandlerForward(r)
    \/ \E r \in Req : EnsureProbe(r)
    \/ \E r \in Req : EnsureGuard(r)
    \/ ScriptPgrep
    \/ ScriptRestore
    \/ ScriptExec
    \/ Poll
    \/ GatewayReady
    \/ GatewayExit
    \/ Tick
    \/ ScheduledStart
    \/ \E ok \in BOOLEAN, partial \in BOOLEAN : ScheduledFinish(ok, partial)

SpecSync == Init /\ [][NextSync]_vars

\* -----------------------------------------------------------------
\* The same, on cold and on restarted containers.
InitMarkers ==
    /\ InitRequests
    /\ fs \in ColdTrees \cup WarmTrees
    /\ fsBefore = fs
    /\ restores = 0
    /\ restoreLog = "none"
    /\ now = MaxMarker
    /\ cron = IdleCron
    /\ host = "bot.example.com"
    /\ env = NativeEnv
    /\ InitRelayVars

SpecMarkers == InitMarkers /\ [][NextSync]_vars

\* Deployments that differ in the required settings and in DEV_MODE.
SettingEnvs ==
    {e \in MoltbotEnv :
        /\ e.CF_ACCESS_TEAM_DOMAIN /\ e.CF_ACCESS_AUD
        /\ ~e.CF_ACCOUNT_ID /\ ~e.AI_GATEWAY_ID /\ ~e.OPENAI_API_KEY
        /\ e.AI_GATEWAY_BASE_URL = "" /\ e.DEFAULT_MODEL = ""
        /\ e.DEBUG_ROUTES = ""}

InitEnv ==
    /\ InitRequests
    /\ fs \in {t \in ColdTrees : t.rCfg = NoFile}
    /\ fsBefore = fs
    /\ restores = 0
    /\ restoreLog = "none"
    /\ now = MaxMarker
    /\ cron = IdleCron
    /\ host = "bot.example.com"
    /\ env \in SettingEnvs
    /\ InitRelayVars

\* The lifecycle with requests for every kind of path.
NextEnv ==
    \/ \E r \in Req, ws \in BOOLEAN, html \in BOOLEAN, path \in Paths :
          Receive(r, ws, html, path)
    \/ \E r \in Req : HandlerProbe(r)
    \/ \E r \in Req : HandlerAfterEnsure(r)
    \/ \E r \in Req : HandlerForward(r)
    \/ \E r \in Req : EnsureProbe(r)
    \/ \E r \in Req : EnsureGuard(r)
    \/ ScriptPgrep
    \/ ScriptRestore
    \/ ScriptExec
    \/ Poll
    \/ GatewayReady
    \/ GatewayExit

SpecEnv == InitEnv /\ [][NextEnv]_vars

\* -----------------------------------------------------------------
\* Gateway starts and restarts under every provider configuration, on
\* trees whose config files hold documents with members of their own.
RestartEnvs ==
    {e \in MoltbotEnv :
        /\ e.CF_ACCESS_TEAM_DOMAIN /\ e.CF_ACCESS_AUD
        /\ ~e.AI_GATEWAY_ID /\ ~e.OPENAI_API_KEY
        /\ e.AI_GATEWAY_BASE_URL = "" /\ e.DEBUG_ROUTES = ""}

InitRestart ==
    /\ InitRequests
    /\ fs \in ConfigTrees
    /\ fsBefore = fs
    /\ restores = 0
    /\ restoreLog = "none"
    /\ now = MaxMarker
    /\ cron = IdleCron
    /\ host = "bot.example.com"
    /\ env \in RestartEnvs
    /\ InitRelayVars

NextRestart ==
    \/ \E r \in Req : Arrive(r, FALSE, FALSE)
    \/ \E r \in Req : HandlerProbe(r)
    \/ \E r \in Req : HandlerAfterEnsure(r)
    \/ \E r \in Req : HandlerForward(r)
    \/ \E r \in Req : EnsureProbe(r)
    \/ \E r \in Req : EnsureGuard(r)
    \/ ScriptPgrep
    \/ ScriptRestore
    \/ ScriptExec
    \/ Poll
    \/ GatewayReady
    \/ GatewayExit

SpecRestart == InitRestart /\ [][NextRestart]_vars

\* =================================================================
\* index.ts: the listeners of a relayed WebSocket session
\* =================================================================

\* The gateway sends a frame on its leg.
GatewaySends(r, data) ==
    /\ containerWs[r].st = "open"
    /\ Len(gwSent[r]) < MaxFrames
    /\ gwSent' = [gwSent EXCEPT ![r] = Append(@, data)]
    /\ UNCHANGED <<gwNext, callerGot, callerSent, callerNext, gwGot>>
    /\ UNCHANGED <<reqVars, flight, procVars, fsVars, cronVars, deployment, legVars>>

\* containerWs 'message': transform an error frame, send to the caller.
ContainerWsMessage(r) ==
    /\ gwNext[r] < Len(gwSent[r])
    /\ LET n == gwNext[r] + 1
           out == containerWsOnMessage(gwSent[r][n], host) IN
        /\ gwNext' = [gwNext EXCEPT ![r] = n]
        /\ callerGot' = [callerGot EXCEPT ![r] =
                            IF sendDelivers(serverWs[r])
                            THEN deliver(@, n, out) ELSE @]
    /\ UNCHANGED <<gwSent, callerSent, callerNext, gwGot>>
    /\ UNCHANGED <<reqVars, flight, procVars, fsVars, cronVars, deployment, legVars>>

\* The caller sends a frame on its leg.
CallerSends(r, data) ==
    /\ serverWs[r].st = "open"
    /\ Len(callerSent[r]) < MaxFrames
    /\ callerSent' = [callerSent EXCEPT ![r] = Append(@, data)]
    /\ UNCHANGED <<gwSent, gwNext, callerGot, callerNext, gwGot>>
    /\ UNCHANGED <<reqVars, flight, procVars, fsVars, cronVars, deployment, legVars>>

\* serverWs 'message': send to the container as it is.
ServerWsMessage(r) ==
    /\ callerNext[r] < Len(callerSent[r])
    /\ LET n == callerNext[r] + 1
           out == serverWsOnMessage(callerSent[r][n]) IN
        /\ callerNext' = [callerNext EXCEPT ![r] = n]
        /\ gwGot' = [gwGot EXCEPT ![r] =
                        IF sendDelivers(containerWs[r])
                        THEN deliver(@, n, out) ELSE @]
    /\ UNCHANGED <<gwSent, gwNext, callerGot, callerSent>>
    /\ UNCHANGED <<reqVars, flight, procVars, fsVars, cronVars, deployment, legVars>>

\* serverWs 'close': the caller leg has closed; close the gateway leg with
\* the event's code and reason.
ServerWsClose(r, ev) ==
    /\ serverWs[r].st = "open"
    /\ callerNext[r] = Len(callerSent[r])
    /\ serverWs' = [serverWs EXCEPT ![r] = ClosedLeg(ev.code, ev.reason)]
    /\ containerWs' = [containerWs EXCEPT ![r] = wsClose(@, ev.code, ev.reason)]
    /\ UNCHANGED <<reqVars, flight, procVars, fsVars, cronVars, deployment, frameVars>>

\* containerWs 'close': the gateway leg has closed; close the caller leg
\* with the event's code and reason.
ContainerWsClose(r, ev) ==
    /\ containerWs[r].st = "open"
    /\ gwNext[r] = Len(gwSent[r])
    /\ containerWs' = [containerWs EXCEPT ![r] = ClosedLeg(ev.code, ev.reason)]
    /\ serverWs' = [serverWs EXCEPT ![r] = wsClose(@, ev.code, ev.reason)]
    /\ UNCHANGED <<reqVars, flight, procVars, fsVars, cronVars, deployment, frameVars>>

\* serverWs 'error': close the gateway leg with 1011.
ServerWsError(r) ==
    /\ serverWs[r].st = "open"
    /\ serverWs' = [serverWs EXCEPT ![r] = [st |-> "errored", code |-> 0,
                                             reason |-> ""]]
    /\ containerWs' = [containerWs EXCEPT ![r] = wsClose(@, 1011, "Client error")]
    /\ UNCHANGED <<reqVars, flight, procVars, fsVars, cronVars, deployment, frameVars>>

\* containerWs 'error': close the caller leg with 1011.
ContainerWsError(r) ==
    /\ containerWs[r].st = "open"
    /\ containerWs' = [containerWs EXCEPT ![r] = [st |-> "errored", code |-> 0,
                                                   reason |-> ""]]
    /\ serverWs' = [serverWs EXCEPT ![r] = wsClose(@, 1011, "Container error")]
    /\ UNCHANGED <<reqVars, flight, procVars, fsVars, cronVars, deployment, frameVars>>

\* An upgrade request found the gateway running and its relay has just been
\* set up: both legs accepted, the 101 returned.
InitRelay ==
    /\ req = [r \in Req |-> [ws |-> r = 1, html |-> FALSE, path |-> "/"]]
    /\ pc = [r \in Req |-> IF r = 1 THEN "done" ELSE "idle"]
    /\ ready = [r \in Req |-> r = 1]
    /\ ens = [r \in Req |-> IF r = 1 THEN "ok" ELSE "none"]
    /\ ensCalls = [r \in Req |-> IF r = 1 THEN 1 ELSE 0]
    /\ flightOf = [r \in Req |-> 0]
    /\ sawStage = [r \in Req |-> "none"]
    /\ role = [r \in Req |-> IF r = 1 THEN "fast" ELSE "none"]
    /\ resp = [r \in Req |-> IF r = 1 THEN WsAccepted ELSE NoResp]
    /\ detail = [r \in Req |-> NoDetail]
    /\ bgLog = [r \in Req |-> "none"]
    /\ flight = IdleFlight
    /\ gw = "running"
    /\ spawns = 1
    /\ exits = 0
    /\ fs \in {configureFromEnv(createConfigIfMissing(t), buildEnvVars(NativeEnv)) :
                  t \in {c \in ColdTrees : ~hasFile(c.rCfg)}}
    /\ fsBefore = fs
    /\ restores = 0
    /\ restoreLog = "none"
    /\ now = MaxMarker
    /\ cron = IdleCron
    /\ host \in Hosts
    /\ env = NativeEnv
    /\ serverWs = [r \in Req |-> IF r = 1 THEN OpenLeg ELSE NoLeg]
    /\ containerWs = [r \in Req |-> IF r = 1 THEN OpenLeg ELSE NoLeg]
    /\ gwSent = [r \in Req |-> <<>>]
    /\ gwNext = [r \in Req |-> 0]
    /\ callerGot = [r \in Req |-> <<>>]
    /\ callerSent = [r \in Req |-> <<>>]
    /\ callerNext = [r \in Req |-> 0]
    /\ gwGot = [r \in Req |-> <<>>]

NextRelay ==
    \/ \E r \in Req, data \in GatewayFrames : GatewaySends(r, data)
    \/ \E r \in Req : ContainerWsMessage(r)
    \/ \E r \in Req, data \in CallerFrames : CallerSends(r, data)
    \/ \E r \in Req : ServerWsMessage(r)
    \/ \E r \in Req, ev \in CloseEvents : ServerWsClose(r, ev)
    \/ \E r \in Req, ev \in CloseEvents : ContainerWsClose(r, ev)
    \/ \E r \in Req : ServerWsError(r)
    \/ \E r \in Req : ContainerWsError(r)

SpecRelay == InitRelay /\ [][NextRelay]_vars

\* -----------------------------------------------------------------
\* The event loop runs every continuation that is ready and the startup
\* script and the readiness poll make progress; nothing obliges the
\* gateway to become ready or new requests to arrive.
Fairness ==
    /\ WF_vars(ScriptPgrep)
    /\ WF_vars(ScriptRestore)
    /\ WF_vars(ScriptExec)
    /\ WF_vars(Poll)
    /\ \A r \in Req :
        /\ WF_vars(HandlerProbe(r))
        /\ WF_vars(EnsureProbe(r))
        /\ WF_vars(EnsureGuard(r))
        /\ WF_vars(HandlerAfterEnsure(r))
        /\ WF_vars(HandlerForward(r))

FairSpec == Spec /\ Fairness

\* =================================================================
\* Properties
\* =================================================================

Settled(r) == ens[r] \in {"ok", "err"}
Probed(r) == pc[r] \notin {"idle", "probing"}
Owners == {r \in Req : role[r] = "owner"}

\* C1: however many requests probe the gateway and find it not running,
\* the starts they trigger exec one gateway process: never a second one
\* while the first has not exited, and exactly one once any caller's
\* ensureMoltbotGateway has settled.
C1_SingleSpawn ==
    /\ spawns <= exits + 1
    /\ exits = 0 =>
          /\ spawns <= 1
          /\ (\E r \in Req : Settled(r)) => spawns = 1

\* Two requests of different kinds both found the gateway not running, both
\* calls have settled and one gateway process was exec'ed.
C1_Witness ==
    \E r1, r2 \in Req :
        /\ r1 # r2
        /\ Probed(r1) /\ Probed(r2)
        /\ ~ready[r1] /\ ~ready[r2]
        /\ req[r1].html /\ ~req[r1].ws /\ req[r2].ws
        /\ Settled(r1) /\ Settled(r2)
        /\ spawns = 1 /\ exits = 0

\* C2: the callers attached to one start (its owner and its joiners) settle
\* together and with the same outcome.
C2_SameOutcome ==
    \A r1, r2 \in Req :
        (flightOf[r1] # 0 /\ flightOf[r1] = flightOf[r2]) =>
            /\ Settled(r1) <=> Settled(r2)
            /\ Settled(r1) => ens[r1] = ens[r2]

\* An owner and a joiner of one start, both seeing the StartupError.
C2_Witness ==
    \E r1, r2 \in Req :
        /\ r1 # r2
        /\ flightOf[r1] = flightOf[r2]
        /\ role[r1] = "owner" /\ role[r2] = "joiner"
        /\ ens[r1] = "err" /\ ens[r2] = "err"

\* C3: a caller that reaches the guard while a start is anywhere between
\* its kick-off and the end of its readiness poll joins that start; only
\* owners launch the startup script, one per start.
C3_JoinsInFlightStart ==
    /\ \A r \in Req :
          sawStage[r] \in {"pgrep", "restore", "configure", "poll"} =>
              /\ role[r] = "joiner"
              /\ \E o \in Owners : o # r /\ flightOf[o] = flightOf[r]
    /\ Cardinality(Owners) = flight.id
    /\ spawns <= flight.id

\* The placeholder branch kicked off the start; a later request arrived
\* while that start was polling for readiness, joined it, and one gateway
\* process exists.
C3_Witness ==
    \E o, r \in Req :
        /\ resp[o] = LoadingPage /\ role[o] = "owner"
        /\ sawStage[r] = "poll" /\ role[r] = "joiner"
        /\ flightOf[r] = flightOf[o]
        /\ Settled(r)
        /\ spawns = 1

\* C4: once the probe has answered "not ready" to a request that is no
\* upgrade and accepts text/html, the request is done with the loading page
\* (its handler never waits on the start) and has made one
\* ensureMoltbotGateway call.
C4_LoadingPageAtOnce ==
    \A r \in Req :
        (Probed(r) /\ ~ready[r] /\ ~req[r].ws /\ req[r].html) =>
            /\ pc[r] = "done"
            /\ resp[r] = LoadingPage
            /\ ensCalls[r] = 1

\* The loading page was returned while the background start had not yet
\* settled.
C4_Witness ==
    \E r \in Req :
        /\ ~req[r].ws /\ req[r].html /\ ~ready[r]
        /\ resp[r] = LoadingPage
        /\ ens[r] = "owner" /\ flight.stage = "poll"
        /\ ensCalls[r] = 1

Pending(r) == ens[r] \in {"probe", "guard", "owner", "joined"}

\* C6: every ensureMoltbotGateway call that has begun settles, and every
\* handler awaiting one gets its response, even if the gateway never becomes
\* ready: the poll count never exceeds its bound, and a foreground caller
\* whose call failed is answered with a 500.
C6_BoundedWait ==
    /\ \A r \in Req : Pending(r) ~> Settled(r)
    /\ \A r \in Req : (pc[r] = "ensuring") ~> (resp[r] # NoResp)
    /\ [](flight.polls <= MaxPolls)
    /\ [](\A r \in Req :
            (pc[r] = "done" /\ ens[r] = "err" /\ resp[r] # LoadingPage) =>
                resp[r].status = 500)

\* The poll budget ran out with the gateway still starting; the waiting API
\* caller got the 500.
C6_Witness ==
    \E r \in Req :
        /\ ~req[r].html
        /\ ens[r] = "err" /\ resp[r] = ErrorJson
        /\ flight.stage = "idle" /\ flight.polls = MaxPolls
        /\ gw = "starting" /\ exits = 0

\* The restore phase of the script has just completed.
RestoreDone == restores > 0 /\ flight.stage = "configure"

\* Both sync markers exist and the remote one is strictly greater.
RemoteMarkerNewer ==
    /\ fsBefore.rMark # NoMarker
    /\ fsBefore.lMark # NoMarker
    /\ fsBefore.rMark > fsBefore.lMark

LocalUntouched ==
    /\ fs = fsBefore
    /\ restoreLog = "local"

RemoteCopied ==
    /\ restoreLog = "restored"
    /\ fs.lCfg = fsBefore.rCfg
    /\ fsBefore.rExtra # NoFile => fs.lExtra = fsBefore.rExtra

\* C7 as stated: with a local config file, restore copies exactly when both
\* markers exist and the remote one is strictly greater, and otherwise leaves
\* the local tree untouched.
C7_AsStated ==
    (RestoreDone /\ fsBefore.lCfg # NoFile) =>
        IF RemoteMarkerNewer THEN RemoteCopied ELSE LocalUntouched

\* C7 (amended): with a local config file and a remote backup config,
\* restore copies remote over local exactly when both markers exist and the
\* remote one is strictly greater; otherwise the local tree is untouched.
C7_RestoreIffRemoteNewer ==
    (RestoreDone /\ fsBefore.lCfg # NoFile /\ fsBefore.rCfg # NoFile) =>
        IF RemoteMarkerNewer THEN RemoteCopied ELSE LocalUntouched

\* A newer remote marker made restore overwrite a different local config.
C7_Witness ==
    /\ RestoreDone
    /\ fsBefore.lCfg # NoFile /\ fsBefore.rCfg # NoFile
    /\ fsBefore.lCfg # fsBefore.rCfg
    /\ RemoteMarkerNewer
    /\ fs.lCfg = fsBefore.rCfg

\* C8: without a gateway config under the remote backup root, restore
\* leaves the local config directory, skills and marker as they were,
\* whatever the local tree and the markers hold.
C8_NoBackupNoChange ==
    (RestoreDone /\ fsBefore.rCfg = NoFile) =>
        /\ fs.lCfg = fsBefore.lCfg
        /\ fs.lExtra = fsBefore.lExtra
        /\ fs.lSkills = fsBefore.lSkills
        /\ fs.lMark = fsBefore.lMark
        /\ restoreLog = "local"

\* No remote config, but other remote files and a newer remote marker, and
\* no local config: nothing was copied.
C8_Witness ==
    /\ RestoreDone
    /\ fsBefore.rCfg = NoFile /\ fsBefore.lCfg = NoFile
    /\ fsBefore.rExtra # NoFile /\ fsBefore.rSkills = "a"
    /\ RemoteMarkerNewer
    /\ fs.lExtra = fsBefore.lExtra /\ fs.lSkills = fsBefore.lSkills

\* C9: with a remote backup config and no local config file, restore copies
\* the remote config to local whatever the markers hold.
C9_RestoreWhenLocalAbsent ==
    (RestoreDone /\ fsBefore.rCfg # NoFile /\ fsBefore.lCfg = NoFile) =>
        /\ fs.lCfg = fsBefore.rCfg
        /\ restoreLog = "restored"

\* The remote marker is smaller than the local one and the config was
\* restored all the same.
C9_Witness ==
    /\ RestoreDone
    /\ fsBefore.rCfg # NoFile /\ fsBefore.lCfg = NoFile
    /\ fsBefore.rMark # NoMarker /\ fsBefore.lMark # NoMarker
    /\ fsBefore.rMark < fsBefore.lMark
    /\ fs.lCfg = fsBefore.rCfg

\* A scheduled run has returned.
CronReturned == cron.n > 0 /\ cron.stage = "idle"

\* C10: when a scheduled run returns, a successful push has left the remote
\* sync marker strictly greater than it was when the run began, and a failed
\* push has left it as it was.
C10_PushAdvancesMarker ==
    CronReturned =>
        /\ cron.log = "completed" => fs.rMark > cron.before
        /\ cron.log = "failed" => fs.rMark = cron.before

\* A second successful push moved the marker on from the value the first
\* one wrote.
C10_Witness ==
    /\ CronReturned
    /\ cron.n = 2
    /\ cron.log = "completed"
    /\ cron.before > MaxMarker
    /\ fs.rMark > cron.before

\* A step in which syncToR2 returns success to the scheduled handler.
PushSucceeds ==
    cron.stage = "syncing" /\ cron'.stage = "idle" /\ cron'.log = "completed"

\* A step in which the restore phase copies the backup over the local tree.
RestoreSucceeds ==
    restores' = restores + 1 /\ restoreLog' = "restored"

\* C11: across restores, pushes and gateway starts, a step changes the
\* remote sync marker only if it is a successful push, and changes the local
\* sync marker only if it is a successful restore or a successful push.
C11_MarkersChangeOnlyBySync ==
    [][ /\ fs'.rMark # fs.rMark => PushSucceeds
        /\ fs'.lMark # fs.lMark => (RestoreSucceeds \/ PushSucceeds) ]_vars

\* A restart with a newer backup restored it and exec'ed the gateway, a
\* first push moved the remote marker, a second one failed and left it
\* there; the local marker is the one the container started with.
C11_Witness ==
    /\ restoreLog = "restored" /\ spawns > 0
    /\ fsBefore.lMark = 0 /\ fsBefore.rMark = MaxMarker
    /\ cron.n = 2 /\ cron.stage = "idle" /\ cron.log = "failed"
    /\ fs.rMark > MaxMarker /\ fs.rMark = cron.before
    /\ fs.lMark = 0

\* The frames passed on to the caller, each with the frame it came from.
Relayed(r) ==
    {[src |-> gwSent[r][callerGot[r][i].from], out |-> callerGot[r][i].data] :
        i \in 1..Len(callerGot[r])}

\* The text parses as JSON with a top-level string member error.
HasTopLevelErrorString(data) ==
    data.type = "text" /\ data.top = "object" /\ data.errType = "string"

HasTokenPhrase(message) ==
    \/ "gateway token missing" \in message.has
    \/ "gateway token mismatch" \in message.has

HasPairingPhrase(message) ==
    "pairing required" \in message.has

\* C12: a text frame from the gateway that parses as JSON with a top-level
\* string error reaches the caller with that error rewritten: to the token
\* guidance for the request host if it contains "gateway token missing" or
\* "gateway token mismatch", to the pairing guidance for the request host if
\* it contains "pairing required".
C12_ErrorFramesRewritten ==
    \A r \in Req : \A f \in Relayed(r) :
        HasTopLevelErrorString(f.src) =>
            /\ HasTokenPhrase(f.src.msg) => f.out.msg = TokenGuidance(host)
            /\ HasPairingPhrase(f.src.msg) => f.out.msg = PairingGuidance(host)

\* A frame whose member name error is written with an escape carried
\* "pairing required" and reached the caller as the gateway sent it.
C12_Witness ==
    \E r \in Req : \E f \in Relayed(r) :
        /\ HasTopLevelErrorString(f.src)
        /\ f.src.fmt = "escaped"
        /\ HasPairingPhrase(f.src.msg)
        /\ f.out = f.src

\* The frames passed on to the gateway, each with the frame it came from.
RelayedUp(r) ==
    {[src |-> callerSent[r][gwGot[r][i].from], out |-> gwGot[r][i].data] :
        i \in 1..Len(gwGot[r])}

\* The frame's top-level error string contains one of the known phrases.
HasKnownError(data) ==
    /\ HasTopLevelErrorString(data)
    /\ HasTokenPhrase(data.msg) \/ HasPairingPhrase(data.msg)

\* C13: every frame passed on to the caller, other than one whose top-level
\* error string contains a known phrase, is the frame the gateway sent, byte
\* for byte; every frame passed on to the gateway is the frame the caller
\* sent.
C13_OtherFramesUnmodified ==
    \A r \in Req :
        /\ \A f \in Relayed(r) : ~HasKnownError(f.src) => f.out = f.src
        /\ \A f \in RelayedUp(r) : f.out = f.src

\* A JSON frame with whitespace whose error string contains no known phrase
\* reached the caller with the same value in different bytes.
C13_Witness ==
    \E r \in Req : \E f \in Relayed(r) :
        /\ HasTopLevelErrorString(f.src) /\ ~HasKnownError(f.src)
        /\ f.src.fmt = "spaced"
        /\ f.out.msg = f.src.msg
        /\ f.out # f.src

\* Request r has a relayed WebSocket session.
HasSession(r) ==
    serverWs[r].st # "none" /\ containerWs[r].st # "none"

\* The leg went down first (by a close or error event) and the listener
\* closed the other one: same code and reason after a close, a closed leg
\* after an error.
Propagated(from, to) ==
    /\ from.st = "closed" => (to.st = "closed" /\ to.code = from.code
                                /\ to.reason = from.reason)
    /\ from.st = "errored" => to.st = "closed"

\* C14: in a relayed session a close on either leg has closed the other leg
\* with the same code and reason, an error on either leg has closed the
\* other leg, and never is one leg closed or errored while the other is
\* open.
C14_CloseReachesOtherLeg ==
    \A r \in Req :
        HasSession(r) =>
            /\ (serverWs[r].st = "open") <=> (containerWs[r].st = "open")
            /\ Propagated(serverWs[r], containerWs[r])
               \/ Propagated(containerWs[r], serverWs[r])

\* The caller's leg closed without a status code and the gateway leg is
\* still open.
C14_Witness ==
    \E r \in Req :
        /\ serverWs[r].st = "closed" /\ serverWs[r].code = 1005
        /\ containerWs[r].st = "open"

\* The frames of the log were passed on in the order they were sent.
InSendingOrder(log) ==
    \A i, j \in 1..Len(log) : i < j => log[i].from < log[j].from

\* C15: within one session the frames passed on to the caller are in the
\* order the gateway sent them and the frames passed on to the gateway are
\* in the order the caller sent them.
C15_FrameOrderPreserved ==
    \A r \in Req :
        /\ InSendingOrder(callerGot[r])
        /\ InSendingOrder(gwGot[r])

\* Two different frames went each way, interleaved, and arrived first
\* before second.
C15_Witness ==
    \E r \in Req :
        /\ Len(callerGot[r]) = MaxFrames /\ Len(gwGot[r]) = MaxFrames
        /\ gwSent[r][1] # gwSent[r][2] /\ callerSent[r][1] # callerSent[r][2]
        /\ callerGot[r][1].from = 1 /\ callerGot[r][2].from = 2
        /\ gwGot[r][1].from = 1 /\ gwGot[r][2].from = 2
        /\ callerGot[r][1].data = containerWsOnMessage(gwSent[r][1], host)
        /\ gwGot[r][2].data = callerSent[r][2]

\* The script has written the config and exec'ed the gateway, once.
ConfigWritten == spawns = 1 /\ exits = 0 /\ flight.stage = "poll"

\* The worker's native gateway fields: account id and provider API key.
NativeFieldsSet == env.CF_ACCOUNT_ID /\ env.AI_GATEWAY_API_KEY

\* C16: with the native gateway fields set, the config the script persists
\* has the cloudflare-ai-gateway provider, has no anthropic and no openai
\* entry under models.providers, and its primary model is the native
\* default unless DEFAULT_MODEL names another, whatever the legacy base URL,
\* the direct provider keys and the config before the start held.
C16_NativeProviderWins ==
    (ConfigWritten /\ NativeFieldsSet) =>
        /\ "cloudflare-ai-gateway" \in fs.lDoc.providers
        /\ "anthropic" \notin fs.lDoc.providers
        /\ "openai" \notin fs.lDoc.providers
        /\ env.DEFAULT_MODEL = "" =>
              fs.lDoc.primary =
                  "cloudflare-ai-gateway/google-ai-studio/gemini-2.5-flash"

\* A legacy base URL and a direct Anthropic key are set next to the native
\* fields, the local config held anthropic and openai entries, and the
\* config written holds the native provider alone.
C16_Witness ==
    /\ ConfigWritten /\ NativeFieldsSet
    /\ env.AI_GATEWAY_BASE_URL # "" /\ env.ANTHROPIC_API_KEY
    /\ restoreLog = "local"
    /\ {"anthropic", "openai"} \subseteq fsBefore.lDoc.providers
    /\ fs.lDoc.providers = {"cloudflare-ai-gateway"}

\* The required settings the deployment lacks, by name.
MissingSettings ==
    {n \in {"MOLTBOT_GATEWAY_TOKEN", "CF_ACCESS_TEAM_DOMAIN", "CF_ACCESS_AUD",
            AIProviderMissing} :
        \/ n = "MOLTBOT_GATEWAY_TOKEN" /\ ~env.MOLTBOT_GATEWAY_TOKEN
        \/ n = "CF_ACCESS_TEAM_DOMAIN" /\ ~env.CF_ACCESS_TEAM_DOMAIN
        \/ n = "CF_ACCESS_AUD" /\ ~env.CF_ACCESS_AUD
        \/ /\ n = AIProviderMissing
           /\ ~(env.CF_ACCOUNT_ID
                  /\ (env.AI_GATEWAY_ID \/ env.AI_GATEWAY_API_KEY))
           /\ ~(env.AI_GATEWAY_API_KEY /\ env.AI_GATEWAY_BASE_URL # "")
           /\ ~env.ANTHROPIC_API_KEY}

\* Request r has been answered.
Answered(r) == pc[r] = "done"

\* The check of required settings applies to r: its path does not begin
\* with /debug and the deployment is not in dev mode.
SettingsChecked(r) ==
    /\ req[r].path \notin {"/debug/env", "/debugger"}
    /\ env.DEV_MODE # "true"

C18_PushResultLoggedOnce ==
    /\ cron.calls <= 1
    /\ CronReturned =>
          /\ cron.calls = 1
          /\ \/ /\ cron.result.success
                /\ cron.result.lastSync # NoMarker
                /\ cron.log = "completed"
             \/ /\ ~cron.result.success
                /\ cron.result.error # ""
                /\ cron.log = "failed"

\* The first run failed and returned, the second run succeeded.
C18_Witness ==
    /\ CronReturned /\ cron.n = 2 /\ cron.calls = 1
    /\ cron.result.success /\ cron.result.lastSync = now
    /\ cron.before = NoMarker /\ fs.rMark = now

\* The handler awaited the start for r: r was not given the loading page.
AwaitedStart(r) == ready[r] \/ req[r].ws \/ ~req[r].html

\* The awaited start of r's request failed and r was answered for it.
StartFailed(r) == Answered(r) /\ AwaitedStart(r) /\ ens[r] = "err"

\* Some model-provider API key is configured.
AnyApiKey == env.AI_GATEWAY_API_KEY \/ env.ANTHROPIC_API_KEY

\* C19: a request whose awaited gateway start failed is answered with
\* status 500, and the response, be it JSON or the HTML page, carries the
\* hint about the missing API key when no provider key is configured and
\* the hint about the worker logs otherwise.
C19_StartFailureCarriesHint ==
    \A r \in Req :
        StartFailed(r) =>
            /\ resp[r].status = 500
            /\ detail[r].hint = IF AnyApiKey THEN HintLogs ELSE HintNoKey

\* A browser's request awaited a start that failed and got the error page,
\* which has no hint; an API request in the same deployment got the JSON
\* body with the hint about the missing key.
C19_Witness ==
    \E r, q \in Req :
        /\ StartFailed(r) /\ req[r].html /\ resp[r] = ErrorHtml
        /\ detail[r].hint = ""
        /\ StartFailed(q) /\ ~req[q].html /\ resp[q] = ErrorJson
        /\ ~AnyApiKey /\ detail[q].hint = HintNoKey

\* The gateway start r awaited succeeded, r asked for a WebSocket, and the
\* container returned no socket for it.
UpstreamSocketFailed(r) ==
    /\ Answered(r) /\ req[r].ws /\ ens[r] = "ok"
    /\ containerWs[r] = NoLeg

\* The response of r is a JSON body when r's Accept lacks text/html and an
\* HTML page when it has it.
StructuredPerAccept(r) ==
    IF req[r].html THEN resp[r] \in {ErrorHtml, ConfigErrorHtml}
    ELSE resp[r] \in {ErrorJson, ConfigErrorJson}

\* C20: a request answered after a failed gateway start or after a failure
\* to open the upstream WebSocket has a JSON error response, or an HTML
\* error page when its Accept header contains text/html.
C20_FailuresAreStructured ==
    \A r \in Req :
        (StartFailed(r) \/ UpstreamSocketFailed(r)) => StructuredPerAccept(r)

\* A WebSocket upgrade from a browser and one from an API client both found
\* the container without a socket; both got the same plain-text 500 and the
\* caller leg was closed with 1011.
C20_Witness ==
    \E r, q \in Req :
        /\ UpstreamSocketFailed(r) /\ req[r].html /\ resp[r] = WsFailed
        /\ UpstreamSocketFailed(q) /\ ~req[q].html /\ resp[q] = WsFailed
        /\ serverWs[r] = ClosedLeg(1011, "Container WebSocket connection failed")

\* A step in which some ensureMoltbotGateway call leaves its probe.
ProbeAnswered(r) == ens[r] = "probe" /\ ens'[r] # "probe"

\* C21: while the gateway process is running, no step of a start attempt
\* restores, writes the local tree (config and lock files included) or
\* spawns a process, and a call whose probe answers then reports success.
C21_RunningStartIsNoOp ==
    [][ gw = "running" =>
          /\ fs' = fs
          /\ restores' = restores
          /\ spawns' = spawns
          /\ \A r \in Req : ProbeAnswered(r) => ens'[r] = "ok" ]_vars

\* The gateway is running from the first start. One call took the fast
\* path; nothing was restored, written or spawned since that start.
C21_Witness ==
    \E o, r \in Req :
        /\ role[o] = "owner" /\ role[r] = "fast" /\ ens[r] = "ok"
        /\ gw = "running" /\ spawns = 1 /\ restores = 1 /\ exits = 0
        /\ fs.lCfg = "configured"

\* The script of the n-th start has just written the config.
WrittenBy(n) == spawns = n /\ flight.stage = "poll"

\* The document the node block of the last script run read.
ProjectionInput ==
    IF restoreLog = "restored" THEN fsBefore.rDoc
    ELSE IF fsBefore.lCfg = NoFile THEN NoDoc
    ELSE fsBefore.lDoc

\* The members the node block never assigns or deletes keep their values.
KeepsOtherMembers(before, after) ==
    /\ after.user = before.user
    /\ before.providers \ {"anthropic", "openai", "cloudflare-ai-gateway"}
          \subseteq after.providers
    /\ before.aliases \ {"anthropic", "cloudflare-ai-gateway"}
          \subseteq after.aliases

\* C22: the config a script run persists keeps the members of the document
\* it read that the projection does not assign, and a second run under the
\* same environment on the config the first run persisted (no restore in
\* between) persists that same config again.
C22_ProjectionIdempotent ==
    /\ (WrittenBy(1) \/ WrittenBy(2)) =>
          KeepsOtherMembers(ProjectionInput, fs.lDoc)
    /\ (WrittenBy(2) /\ restoreLog = "local") =>
          /\ fs.lDoc = fsBefore.lDoc
          /\ fs.lCfg = fsBefore.lCfg

\* The gateway exited, a second start ran the script on the config the
\* first one had written from a document with its own provider entry and
\* user member, under an environment that sets the token, and wrote the
\* same document.
C22_Witness ==
    /\ WrittenBy(2) /\ restoreLog = "local" /\ exits = 1
    /\ env.MOLTBOT_GATEWAY_TOKEN /\ env.ANTHROPIC_API_KEY
    /\ fs.lDoc.user = "b" /\ "ollama" \in fs.lDoc.providers
    /\ fs.lDoc.token = "env"
    /\ fs.lDoc = fsBefore.lDoc

\* C23: a restore leaves every local file without a counterpart in the
\* backup as it was: a local-only file of the config directory and the
\* local sync marker survive, and with the remote skills directory absent
\* or empty the local skills are unchanged.
C23_RestoreKeepsLocalOnlyFiles ==
    RestoreDone =>
        /\ fsBefore.rExtra = NoFile => fs.lExtra = fsBefore.lExtra
        /\ fsBefore.rCfg = NoFile => fs.lCfg = fsBefore.lCfg
        /\ fsBefore.rSkills \in {NoDir, NoFile} =>
              fs.lSkills = fsBefore.lSkills
        /\ fs.lMark = fsBefore.lMark

\* The backup's config replaced a different local one, while the local-only
\* file and the local skills, next to an empty remote skills directory,
\* stayed.
C23_Witness ==
    /\ RestoreDone /\ restoreLog = "restored"
    /\ fsBefore.lCfg = "b" /\ fs.lCfg = "a"
    /\ fsBefore.rExtra = NoFile /\ fsBefore.lExtra = "b" /\ fs.lExtra = "b"
    /\ fsBefore.rSkills = NoFile /\ fsBefore.lSkills = "b"
    /\ fs.lSkills = "b"

\* The handler gave r the loading page and left its start to run in the
\* background.
InBackground(r) == resp[r] = LoadingPage

\* C24: once a request has been answered with the loading page, its
\* background start still settles, with success or with failure; the
\* loading page stays the request's response in every later step; and a
\* failure of that start is logged.
C24_BackgroundStartCompletes ==
    /\ \A r \in Req : (InBackground(r) /\ Pending(r)) ~> Settled(r)
    /\ [][\A r \in Req : InBackground(r) =>
            (resp'[r] = LoadingPage /\ pc'[r] = "done")]_vars
    /\ [](\A r \in Req :
            (InBackground(r) /\ Settled(r)) =>
                (ens[r] = "err" <=> bgLog[r] = "failed"))

\* The loading page was returned long before the start it scheduled ran
\* out of polls; that failure was logged and the response is the page.
C24_Witness ==
    \E r \in Req :
        /\ InBackground(r) /\ pc[r] = "done" /\ role[r] = "owner"
        /\ ens[r] = "err" /\ bgLog[r] = "failed"
        /\ flight.polls = MaxPolls /\ gw = "starting"

\* Some frame of the log's source was handled by the message listener and
\* not passed on: the send raised and the listener caught it.
Dropped(handled, log) ==
    \E n \in 1..handled : \A i \in 1..Len(log) : log[i].from # n

\* A send to either leg of r's session has raised.
SendRaised(r) ==
    \/ Dropped(gwNext[r], callerGot[r])
    \/ Dropped(callerNext[r], gwGot[r])

\* An error event has fired on either leg of r's session.
LegErrored(r) ==
    serverWs[r].st = "errored" \/ containerWs[r].st = "errored"

\* The leg is down abnormally: it errored, or it was closed with 1006 or
\* 1011.
DownAbnormally(leg) ==
    \/ leg.st = "errored"
    \/ leg.st = "closed" /\ leg.code \in {1006, 1011}

\* C25: in a relayed session in which a send to either leg has raised or an
\* error event has fired on either leg, both legs are down with an
\* abnormal-closure code.
C25_PumpFailureClosesBothLegs ==
    \A r \in Req :
        (HasSession(r) /\ (SendRaised(r) \/ LegErrored(r))) =>
            (DownAbnormally(serverWs[r]) /\ DownAbnormally(containerWs[r]))

\* The caller's connection was lost; the gateway sent a frame afterwards,
\* the send to the caller's leg raised and was caught, and the gateway leg
\* is still open.
C25_Witness ==
    \E r \in Req :
        /\ serverWs[r].st = "closed" /\ serverWs[r].code = 1006
        /\ gwNext[r] = 1 /\ Len(callerGot[r]) = 0
        /\ SendRaised(r)
        /\ containerWs[r].st = "open"

\* -----------------------------------------------------------------
\* C26: restore and push never overlap
\* -----------------------------------------------------------------

\* The startup script has passed its already-running guard and has not yet
\* left the restore block.
RestoreInProgress == flight.stage = "restore"

\* The scheduled handler has called syncToR2 and is awaiting its result.
PushInProgress == cron.stage = "syncing"

\* C26: the restore phase of the startup script and the timer-driven push
\* never execute concurrently on the local config tree: in no reachable
\* state are a restore and a push both in progress.
C26_RestoreAndPushExclusive == ~(RestoreInProgress /\ PushInProgress)

\* A push is awaited while the startup script is about to copy the R2
\* backup over the local tree.
C26_Witness ==
    /\ RestoreInProgress
    /\ PushInProgress
    /\ should_restore_from_r2(fs)

\* -----------------------------------------------------------------
\* C27: a request stopped by the check of required settings goes no further
\* -----------------------------------------------------------------

\* Request r has been received, the check of required settings applies to
\* it, and a required setting is missing.
StoppedByValidation(r) ==
    /\ pc[r] # "idle"
    /\ SettingsChecked(r)
    /\ MissingSettings # {}

\* Nothing of the catch-all handler has run for r: no process probe, no
\* call of ensureMoltbotGateway in the foreground or in the background, no
\* start joined or launched, no forward and no relay.
CatchAllUntouched(r) ==
    /\ ~ready[r]
    /\ ens[r] = "none" /\ ensCalls[r] = 0
    /\ flightOf[r] = 0 /\ role[r] = "none" /\ sawStage[r] = "none"
    /\ bgLog[r] = "none"
    /\ serverWs[r] = NoLeg /\ containerWs[r] = NoLeg

\* C27: when required settings are missing, DEV_MODE is not 'true' and the
\* path does not begin with /debug, a request that reaches the validation
\* middleware is rejected with the 503 before the catch-all handler runs:
\* no process probe, no gateway start (foreground or background) and no
\* forward to the gateway happens for that request.
C27_RejectedBeforeCatchAll ==
    \A r \in Req :
        StoppedByValidation(r) =>
            /\ Answered(r)
            /\ resp[r] \in {ConfigErrorHtml, ConfigErrorJson}
            /\ CatchAllUntouched(r)

\* A WebSocket upgrade was rejected for missing settings and left the
\* catch-all handler untouched, while a request for /debugger in the same
\* deployment went on to the process probe.
C27_Witness ==
    \E r, q \in Req :
        /\ StoppedByValidation(r) /\ req[r].ws
        /\ resp[r] = ConfigErrorJson
        /\ CatchAllUntouched(r)
        /\ req[q].path = "/debugger" /\ ensCalls[q] = 1

\* -----------------------------------------------------------------
\* C28: validation and projection agree on the provider configuration
\* -----------------------------------------------------------------

\* validateRequiredEnv reports nothing missing for the deployment.
ValidationPasses == validateRequiredEnv(env) = <<>>

\* The branch of the node block that no API configuration leads to: the
\* primary model of the built-in default provider.
DefaultProviderModel == "anthropic/claude-opus-4-5"

\* C28: for every environment in which validateRequiredEnv reports no
\* missing AI provider configuration, the environment passed by
\* buildEnvVars makes the startup projection select a keyed provider
\* (native gateway or direct), never the built-in default provider used
\* when no API configuration is found.
C28_ValidatedEnvSelectsKeyedProvider ==
    (ConfigWritten /\ ValidationPasses) =>
        /\ nativeSelected(buildEnvVars(env))
              \/ buildEnvVars(env).ANTHROPIC_API_KEY
        /\ fs.lDoc.primary # DefaultProviderModel

\* Validation passed on an account id and a gateway id alone, and the
\* config was written with the default provider's model.
C28_Witness ==
    /\ ConfigWritten /\ ValidationPasses
    /\ env.CF_ACCOUNT_ID /\ env.AI_GATEWAY_ID
    /\ ~env.AI_GATEWAY_API_KEY /\ ~env.ANTHROPIC_API_KEY
    /\ fs.lDoc.primary = DefaultProviderModel

====
